---------------------------- MODULE Spec2Model ----------------------------
(***************************************************************************)
(* A model of ecephys_spike_sorting/common/utils.py: the cluster-quality   *)
(* table (write_cluster_group_tsv / read_cluster_group_tsv), the probe     *)
(* metadata codec (write_probe_json / read_probe_json) and the Kilosort    *)
(* output loader (load / load_kilosort_data).                              *)
(*                                                                         *)
(* Texts (table cells, JSON number tokens) are sequences of one-character  *)
(* strings, so that formatting and parsing are computed, not assumed.      *)
(* A file is a record whose field "state" is "absent", "denied" (the path  *)
(* exists but cannot be opened) or "file".                                 *)
(***************************************************************************)
EXTENDS Integers, Sequences, FiniteSets, TLC

VARIABLES
    pc,         \* position of the running operation
    raised,     \* class of the exception that ended it, or "none"
    result,     \* the value returned to the caller, <<>> before that
    folder,     \* the directory: file name -> file
    args,       \* the arguments of the running operation, by name
    loc,        \* the local variables of the running operation, by name
    calls       \* history: the operations that have returned, in order

vars == <<pc, raised, result, folder, args, loc, calls>>

(***************************************************************************)
(* Bounds of the model.                                                    *)
(***************************************************************************)
MaxClusters == 2     \* clusters passed to write_cluster_group_tsv
MaxRows == 3         \* lines of a cluster_group.tsv found on disk
MaxSpikes == 2       \* spikes in the spike record set
MaxMissing == 2      \* files missing from the directory at once
MaxTemplates == 2    \* templates in templates.npy
MaxTime == 3         \* raw time samples per template
MaxChan == 2         \* channels of the template tensor
MaxPad == 2          \* padding widths tried besides the default
MaxProbeChan == 2    \* channels in a probe metadata record

(***************************************************************************)
(* Texts and integers.                                                     *)
(***************************************************************************)
DigitChars == <<"0", "1", "2", "3", "4", "5", "6", "7", "8", "9">>

RECURSIVE NatToText(_)
NatToText(n) ==
    IF n < 10 THEN <<DigitChars[n + 1]>>
    ELSE NatToText(n \div 10) \o <<DigitChars[(n % 10) + 1]>>

\* str(n) of an integer, as to_csv and json.dump write it
IntToText(n) == IF n < 0 THEN <<"-">> \o NatToText(-n) ELSE NatToText(n)

DigitValue(ch) == (CHOOSE d \in 1..10 : DigitChars[d] = ch) - 1

IsDigit(ch) == \E d \in 1..10 : DigitChars[d] = ch

IsNatText(t) == Len(t) >= 1 /\ \A i \in 1..Len(t) : IsDigit(t[i])

RECURSIVE NatValue(_)
NatValue(t) ==
    IF Len(t) = 0 THEN 0
    ELSE 10 * NatValue(SubSeq(t, 1, Len(t) - 1)) + DigitValue(t[Len(t)])

\* whether int(t) succeeds: an optional sign followed by digits
IsIntText(t) ==
    IF Len(t) >= 1 /\ t[1] \in {"-", "+"} THEN IsNatText(Tail(t))
    ELSE IsNatText(t)

\* int(t) of a text that IsIntText accepts
TextToInt(t) ==
    IF t[1] = "-" THEN -NatValue(Tail(t))
    ELSE IF t[1] = "+" THEN NatValue(Tail(t))
    ELSE NatValue(t)

Absent == [state |-> "absent"]
Denied == [state |-> "denied"]
TextFile(rows) == [state |-> "file", rows |-> rows]

\* exception classes that are subclasses of OSError
OSErrors == {"FileNotFoundError", "PermissionError"}

(***************************************************************************)
(* The cluster-quality table.                                              *)
(***************************************************************************)
HeaderId == <<"c", "l", "u", "s", "t", "e", "r", "_", "i", "d">>
HeaderGroup == <<"g", "r", "o", "u", "p">>
Unsorted == <<"u", "n", "s", "o", "r", "t", "e", "d">>
Good == <<"g", "o", "o", "d">>
Noise == <<"n", "o", "i", "s", "e">>
HeaderRow == <<HeaderId, HeaderGroup>>

\* the label write_cluster_group_tsv gives a quality code
QualityLabel(code) ==
    IF code = 0 THEN Unsorted
    ELSE IF code = 1 THEN Good
    ELSE Noise

\* DataFrame.to_csv(sep='\t', index=False): the header line, then one line
\* per row holding str(cluster_id) and the group
ToCsv(index, labels) ==
    <<HeaderRow>> \o [i \in 1..Len(index) |-> <<IntToText(index[i]), labels[i]>>]

\* np.genfromtxt(filename, dtype='str'): the lines split into cells; every
\* line must have as many cells as the first; the array is squeezed, so one
\* line or one column gives a 1-D array (0-D for a single cell)
GenFromTxt(file) ==
    IF file.state = "absent" THEN [err |-> "FileNotFoundError"]
    ELSE IF file.state = "denied" THEN [err |-> "PermissionError"]
    ELSE LET rows == file.rows IN
         IF Len(rows) = 0 THEN [err |-> "none", ndim |-> 1, rows |-> rows]
         ELSE IF \E i \in 1..Len(rows) : Len(rows[i]) # Len(rows[1])
              THEN [err |-> "ValueError"]
         ELSE [err |-> "none",
               ndim |-> (IF Len(rows) # 1 THEN 1 ELSE 0)
                        + (IF Len(rows[1]) # 1 THEN 1 ELSE 0),
               rows |-> rows]

\* read_cluster_group_tsv(filename): [err, ids, quality]
ReadClusterGroupTsv(file) ==
    LET info == GenFromTxt(file) IN
    IF info.err # "none" THEN [err |-> info.err]
    ELSE IF info.ndim # 2 THEN [err |-> "IndexError"]
    ELSE LET data == Tail(info.rows) IN
         IF \E i \in 1..Len(data) : ~IsIntText(data[i][1])
         THEN [err |-> "ValueError"]
         ELSE [err |-> "none",
               ids |-> [i \in 1..Len(data) |-> TextToInt(data[i][1])],
               quality |-> [i \in 1..Len(data) |-> data[i][2]]]

(***************************************************************************)
(* Arrays: a shape and the values.  The spike arrays keep their values in  *)
(* one flat sequence; a matrix is a sequence of rows and the template      *)
(* tensor a sequence of (time x channel) matrices.                         *)
(***************************************************************************)
Array(shape, data) == [shape |-> shape, data |-> data]

Max(a, b) == IF a >= b THEN a ELSE b

\* np.squeeze(a): every axis of length one is dropped
Squeeze(a) == Array(SelectSeq(a.shape, LAMBDA d : d # 1), a.data)

\* a / sample_rate, elementwise; a quotient is kept as <<numerator, denominator>>
Divide(a, rate) == Array(a.shape, [i \in 1..Len(a.data) |-> <<a.data[i], rate>>])

RECURSIVE SortedSeq(_)
SortedSeq(S) ==
    IF S = {} THEN <<>>
    ELSE LET m == CHOOSE x \in S : \A y \in S : x <= y
         IN <<m>> \o SortedSeq(S \ {m})

\* a variant of np.unique that keeps the values in order of first appearance
UniqueInOrder(a) ==
    LET RECURSIVE keep(_)
        keep(n) ==
            IF n = 0 THEN <<>>
            ELSE IF \E j \in 1..(n - 1) : a.data[j] = a.data[n] THEN keep(n - 1)
            ELSE Append(keep(n - 1), a.data[n])
    IN keep(Len(a.data))

\* np.unique(a): the distinct values of the flattened array, ascending
Unique(a) == SortedSeq({a.data[i] : i \in 1..Len(a.data)})

\* a variant that strips the last p samples: templates[:, :T-p, :]
StripPaddingTail(t, p) ==
    Array(<<t.shape[1], Max(t.shape[2] - p, 0), t.shape[3]>>,
          [i \in 1..t.shape[1] |->
              [s \in 1..Max(t.shape[2] - p, 0) |-> t.data[i][s]]])

\* templates[:, p:, :]
StripPadding(t, p) ==
    Array(<<t.shape[1], Max(t.shape[2] - p, 0), t.shape[3]>>,
          [i \in 1..t.shape[1] |->
              [s \in 1..Max(t.shape[2] - p, 0) |-> t.data[i][p + s]]])

\* np.zeros(shape) of a 3-D shape
Zeros(shape) ==
    Array(shape, [i \in 1..shape[1] |-> [s \in 1..shape[2] |->
                                            [c \in 1..shape[3] |-> 0]]])

RECURSIVE DotSum(_, _, _, _)
DotSum(row, mat, col, j) ==
    IF j = 0 THEN 0 ELSE DotSum(row, mat, col, j - 1) + row[j] * mat[j][col]

\* np.dot(a, w) of a (t x c) slice whose rows are a, and a 2-D array w:
\* the inner dimensions must agree
Dot(a, t, c, w) ==
    IF c # w.shape[1] THEN [err |-> "ValueError"]
    ELSE [err |-> "none",
          cols |-> w.shape[2],
          rows |-> [s \in 1..t |-> [b \in 1..w.shape[2] |->
                                       DotSum(a[s], w.data, b, c)]]]

\* unwhitened_temps[temp_idx,:,:] = value: the value (t x k) is broadcast to
\* the slice (t x c), which it can be when k = c or k = 1
SliceValue(value, t, c) ==
    IF value.cols = c THEN [err |-> "none", rows |-> value.rows]
    ELSE IF value.cols = 1
         THEN [err |-> "none",
               rows |-> [s \in 1..t |-> [b \in 1..c |-> value.rows[s][1]]]]
    ELSE [err |-> "ValueError"]

\* the index of the tensor that one pass of the loop writes (0-based)
StoreIndex(temp_idx) == temp_idx

\* a variant that always selects the primary array
SpikeTimesFilePrimary(use_master_clock) == "spike_times.npy"

\* file names of the directory
SpikeTimesFile(use_master_clock) ==
    IF use_master_clock THEN "spike_times_master_clock.npy" ELSE "spike_times.npy"

TsvName == "cluster_group.tsv"

\* load(folder, filename): np.load of the path
load(dir, filename) ==
    IF dir[filename].state = "absent" THEN [err |-> "FileNotFoundError"]
    ELSE [err |-> "none", value |-> dir[filename].array]

\* except OSError
CaughtByExcept(e) == e \in OSErrors

(***************************************************************************)
(* load_kilosort_data, statement by statement.                             *)
(***************************************************************************)
\* variable = load(folder, filename): the array, or the error of np.load
LoadInto(filename, name, next) ==
    /\ LET r == load(folder, filename) IN
       IF r.err # "none"
       THEN pc' = "raised" /\ raised' = r.err /\ UNCHANGED loc
       ELSE pc' = next /\ loc' = [loc EXCEPT ![name] = r.value]
            /\ UNCHANGED raised
    /\ UNCHANGED <<result, folder, args, calls>>

LoadSpikeTimes ==
    /\ pc = "load_spike_times"
    /\ LoadInto(SpikeTimesFile(args.use_master_clock),
                "spike_times", "load_spike_clusters")

LoadSpikeClusters ==
    /\ pc = "load_spike_clusters"
    /\ LoadInto("spike_clusters.npy", "spike_clusters",
                "load_amplitudes")

LoadAmplitudes ==
    /\ pc = "load_amplitudes"
    /\ LoadInto("amplitudes.npy", "amplitudes", "load_templates")

LoadTemplates ==
    /\ pc = "load_templates"
    /\ LoadInto("templates.npy", "templates",
                "load_unwhitening_mat")

LoadUnwhiteningMat ==
    /\ pc = "load_unwhitening_mat"
    /\ LoadInto("whitening_mat_inv.npy", "unwhitening_mat",
                "load_channel_map")

LoadChannelMap ==
    /\ pc = "load_channel_map"
    /\ LoadInto("channel_map.npy", "channel_map",
                IF args.include_pcs THEN "load_pc_features" ELSE "normalize")

LoadPcFeatures ==
    /\ pc = "load_pc_features"
    /\ LoadInto("pc_features.npy", "pc_features",
                "load_pc_feature_ind")

LoadPcFeatureInd ==
    /\ pc = "load_pc_feature_ind"
    /\ LoadInto("pc_feature_ind.npy", "pc_feature_ind",
                "normalize")

\* strip the padding, squeeze, convert to seconds, allocate the output
Normalize ==
    /\ pc = "normalize"
    /\ LET stripped == StripPadding(loc.templates, args.template_zero_padding)
           times == Squeeze(loc.spike_times)
       IN loc' = [loc EXCEPT
                    !.templates = stripped,
                    !.spike_clusters = Squeeze(loc.spike_clusters),
                    !.spike_times = IF args.convert_to_seconds
                                    THEN Divide(times, args.sample_rate)
                                    ELSE times,
                    !.unwhitened_temps = Zeros(stripped.shape),
                    !.temp_idx = 0]
    /\ pc' = "unwhiten"
    /\ UNCHANGED <<raised, result, folder, args, calls>>

\* one pass of: for temp_idx in range(templates.shape[0])
UnwhitenTemplate ==
    /\ pc = "unwhiten"
    /\ loc.temp_idx < loc.templates.shape[1]
    /\ LET t == loc.templates.shape[2]
           c == loc.templates.shape[3]
           product == Dot(loc.templates.data[loc.temp_idx + 1], t, c,
                          loc.unwhitening_mat)
           stored == IF product.err # "none" THEN product
                     ELSE SliceValue(product, t, c)
       IN IF stored.err # "none"
          THEN pc' = "raised" /\ raised' = stored.err /\ UNCHANGED loc
          ELSE /\ loc' = [loc EXCEPT
                            !.unwhitened_temps.data[StoreIndex(loc.temp_idx) + 1]
                                = stored.rows,
                            !.temp_idx = loc.temp_idx + 1]
               /\ UNCHANGED <<pc, raised>>
    /\ UNCHANGED <<result, folder, args, calls>>

UnwhitenDone ==
    /\ pc = "unwhiten"
    /\ loc.temp_idx >= loc.templates.shape[1]
    /\ pc' = "read_quality"
    /\ UNCHANGED <<raised, result, folder, args, loc, calls>>

\* try: cluster_ids, cluster_quality = read_cluster_group_tsv(...)
ReadQuality ==
    /\ pc = "read_quality"
    /\ LET r == ReadClusterGroupTsv(folder[TsvName]) IN
       IF r.err = "none"
       THEN /\ loc' = [loc EXCEPT !.cluster_ids = r.ids,
                                  !.cluster_quality = r.quality]
            /\ pc' = "return"
            /\ UNCHANGED raised
       ELSE IF CaughtByExcept(r.err)
       THEN pc' = "except_oserror" /\ UNCHANGED <<raised, loc>>
       ELSE pc' = "raised" /\ raised' = r.err /\ UNCHANGED loc
    /\ UNCHANGED <<result, folder, args, calls>>

\* except OSError: the ids found in the spike data, each 'unsorted'
Fallback ==
    /\ pc = "except_oserror"
    /\ LET ids == Unique(loc.spike_clusters) IN
       loc' = [loc EXCEPT !.cluster_ids = ids,
                          !.cluster_quality = [i \in 1..Len(ids) |-> Unsorted]]
    /\ pc' = "return"
    /\ UNCHANGED <<raised, result, folder, args, calls>>

Return ==
    /\ pc = "return"
    /\ result' = LET r == <<loc.spike_times, loc.spike_clusters, loc.amplitudes,
                            loc.unwhitened_temps, loc.channel_map,
                            loc.cluster_ids, loc.cluster_quality>>
                 IN IF args.include_pcs
                    THEN r \o <<loc.pc_features, loc.pc_feature_ind>>
                    ELSE r
    /\ pc' = "returned"
    /\ calls' = Append(calls, "load_kilosort_data")
    /\ UNCHANGED <<raised, folder, args, loc>>

(***************************************************************************)
(* The directories and arguments load_kilosort_data is run on.             *)
(***************************************************************************)
DefaultPadding == 21
SampleRates == {2500, 30000}

BoundedSeq(S, n) == UNION {[1..k -> S] : k \in 0..n}

Npy(a) == [state |-> "file", array |-> a]

\* a spike array as stored: one-dimensional, or a column (N x 1)
SpikeArray(values, kind) ==
    IF kind = "column" THEN Array(<<Len(values), 1>>, values)
    ELSE Array(<<Len(values)>>, values)

\* a template tensor of pairwise distinct values
TemplateTensor(n, t, c) ==
    Array(<<n, t, c>>,
          [i \in 1..n |-> [s \in 1..t |-> [ch \in 1..c |->
                                              100 * i + 3 * s + ch]]])

\* a 2-D array of r rows and k columns
Matrix(r, k, g) ==
    Array(<<r, k>>, [a \in 1..r |-> [b \in 1..k |-> ((g * a + b) % 5) - 2]])

NpyNames ==
    {"spike_times.npy", "spike_times_master_clock.npy", "spike_clusters.npy",
     "amplitudes.npy", "templates.npy", "whitening_mat_inv.npy",
     "channel_map.npy", "pc_features.npy", "pc_feature_ind.npy"}

FileNames == NpyNames \cup {TsvName}

ClusterIdSet == {0, 2, 5}

BaseTable == TextFile(<<HeaderRow, <<IntToText(5), Good>>, <<IntToText(12), Noise>>>>)

\* a directory of two spikes, one template and two channels
BaseFolder ==
    [f \in FileNames |->
        CASE f = "spike_times.npy" -> Npy(SpikeArray(<<30, 60>>, "column"))
          [] f = "spike_times_master_clock.npy" ->
                Npy(SpikeArray(<<33, 63>>, "column"))
          [] f = "spike_clusters.npy" -> Npy(SpikeArray(<<5, 2>>, "column"))
          [] f = "amplitudes.npy" -> Npy(SpikeArray(<<10, 11>>, "column"))
          [] f = "templates.npy" -> Npy(TemplateTensor(1, DefaultPadding + 1, 2))
          [] f = "whitening_mat_inv.npy" -> Npy(Matrix(2, 2, 1))
          [] f = "channel_map.npy" -> Npy(SpikeArray(<<0, 1>>, "column"))
          [] f = "pc_features.npy" -> Npy(Array(<<2, 1, 1>>, <<7, 8>>))
          [] f = "pc_feature_ind.npy" -> Npy(Array(<<1, 1>>, <<0>>))
          [] OTHER -> BaseTable]

BaseArgs ==
    [sample_rate |-> 30000, convert_to_seconds |-> TRUE,
     use_master_clock |-> FALSE, include_pcs |-> FALSE,
     template_zero_padding |-> DefaultPadding]

NoValue == <<>>

LoadLocals ==
    [spike_times |-> NoValue, spike_clusters |-> NoValue, amplitudes |-> NoValue,
     templates |-> NoValue, unwhitening_mat |-> NoValue, channel_map |-> NoValue,
     pc_features |-> NoValue, pc_feature_ind |-> NoValue,
     unwhitened_temps |-> NoValue, temp_idx |-> 0,
     cluster_ids |-> NoValue, cluster_quality |-> NoValue]

\* cells and lines of a cluster_group.tsv found on disk
IdCells == {HeaderId, IntToText(7), IntToText(12)}
LabelCells == {HeaderGroup, Good}
RowSet == {<<a>> : a \in IdCells} \cup {<<a, b>> : a \in IdCells, b \in LabelCells}
Tables == {TextFile(rows) : rows \in BoundedSeq(RowSet, MaxRows)}

\* directories with some files missing, under every combination of the flags
InitFiles ==
    /\ \E missing \in {m \in SUBSET FileNames : Cardinality(m) <= MaxMissing} :
          folder = [f \in FileNames |->
                       IF f \in missing THEN Absent ELSE BaseFolder[f]]
    /\ args \in [sample_rate : SampleRates,
                 convert_to_seconds : BOOLEAN,
                 use_master_clock : BOOLEAN,
                 include_pcs : BOOLEAN,
                 template_zero_padding : {DefaultPadding}]

\* directories whose spike record set and quality table vary
InitQuality ==
    /\ args = BaseArgs
    /\ \/ \E ids \in BoundedSeq(ClusterIdSet, MaxSpikes),
             kind \in {"flat", "column"},
             tsv \in {Absent, Denied, BaseTable, TextFile(<<HeaderRow>>)} :
             folder = [BaseFolder EXCEPT
                 !["spike_times.npy"] =
                     Npy(SpikeArray([i \in 1..Len(ids) |-> 30 * i], kind)),
                 !["spike_clusters.npy"] = Npy(SpikeArray(ids, kind)),
                 !["amplitudes.npy"] =
                     Npy(SpikeArray([i \in 1..Len(ids) |-> 10 + i], "column")),
                 ![TsvName] = tsv]
       \/ \E tsv \in Tables : folder = [BaseFolder EXCEPT ![TsvName] = tsv]

\* directories whose template tensor and unwhitening matrix vary
InitTemplates ==
    \E n \in 0..MaxTemplates, t \in 0..MaxTime, c \in 1..MaxChan,
       p \in 0..MaxPad, r \in 1..(MaxChan + 1), k \in 1..(MaxChan + 1),
       g \in {1, 2} :
       /\ folder = [BaseFolder EXCEPT
                      !["templates.npy"] = Npy(TemplateTensor(n, t, c)),
                      !["whitening_mat_inv.npy"] = Npy(Matrix(r, k, g))]
       /\ args = [BaseArgs EXCEPT !.template_zero_padding = p]

Init ==
    /\ pc = "load_spike_times"
    /\ raised = "none"
    /\ result = <<>>
    /\ calls = <<>>
    /\ loc = LoadLocals
    /\ (InitFiles \/ InitQuality \/ InitTemplates)

Next ==
    \/ LoadSpikeTimes
    \/ LoadSpikeClusters
    \/ LoadAmplitudes
    \/ LoadTemplates
    \/ LoadUnwhiteningMat
    \/ LoadChannelMap
    \/ LoadPcFeatures
    \/ LoadPcFeatureInd
    \/ Normalize
    \/ UnwhitenTemplate
    \/ UnwhitenDone
    \/ ReadQuality
    \/ Fallback
    \/ Return

Spec == Init /\ [][Next]_vars

(***************************************************************************)
(* write_cluster_group_tsv followed by read_cluster_group_tsv, and         *)
(* read_cluster_group_tsv of a table found on disk.                        *)
(***************************************************************************)
\* one pass of: for idx, ID in enumerate(IDs)
WriteLoop ==
    /\ pc = "write_loop"
    /\ loc.idx < Len(args.IDs)
    /\ IF loc.idx >= Len(args.quality)
       THEN pc' = "raised" /\ raised' = "IndexError" /\ UNCHANGED loc
       ELSE /\ loc' = [loc EXCEPT
                         !.cluster_index =
                             Append(loc.cluster_index, args.IDs[loc.idx + 1]),
                         !.cluster_quality =
                             Append(loc.cluster_quality,
                                    QualityLabel(args.quality[loc.idx + 1])),
                         !.idx = loc.idx + 1]
            /\ UNCHANGED <<pc, raised>>
    /\ UNCHANGED <<result, folder, args, calls>>

\* df.to_csv(os.path.join(output_directory, 'cluster_group.tsv'), ...)
WriteSave ==
    /\ pc = "write_loop"
    /\ loc.idx >= Len(args.IDs)
    /\ IF folder[TsvName].state = "denied"
       THEN pc' = "raised" /\ raised' = "PermissionError"
            /\ UNCHANGED <<folder, calls>>
       ELSE /\ folder' = [folder EXCEPT ![TsvName] =
                             TextFile(ToCsv(loc.cluster_index,
                                            loc.cluster_quality))]
            /\ calls' = Append(calls, "write_cluster_group_tsv")
            /\ pc' = "read"
            /\ UNCHANGED raised
    /\ UNCHANGED <<result, args, loc>>

\* read_cluster_group_tsv(os.path.join(folder, 'cluster_group.tsv'))
ReadTable ==
    /\ pc = "read"
    /\ LET r == ReadClusterGroupTsv(folder[TsvName]) IN
       IF r.err # "none"
       THEN pc' = "raised" /\ raised' = r.err /\ UNCHANGED <<result, calls>>
       ELSE /\ result' = <<r.ids, r.quality>>
            /\ calls' = Append(calls, "read_cluster_group_tsv")
            /\ pc' = "returned"
            /\ UNCHANGED raised
    /\ UNCHANGED <<folder, args, loc>>

WriteIdSet == {-1, 0, 3, 12}
QualityCodes == {-1, 0, 1, 2}

WriteLocals == [cluster_index |-> <<>>, cluster_quality |-> <<>>, idx |-> 0]

InitTsv ==
    /\ raised = "none"
    /\ result = <<>>
    /\ calls = <<>>
    /\ loc = WriteLocals
    /\ \/ /\ pc = "write_loop"
          /\ args \in [IDs : BoundedSeq(WriteIdSet, MaxClusters),
                       quality : BoundedSeq(QualityCodes, MaxClusters)]
          /\ folder \in [{TsvName} -> {Absent, Denied, BaseTable}]
       \/ /\ pc = "read"
          /\ args = [IDs |-> <<>>, quality |-> <<>>]
          /\ folder \in [{TsvName} -> Tables \cup {Absent, Denied}]

NextTsv ==
    \/ WriteLoop
    \/ WriteSave
    \/ ReadTable

SpecTsv == InitTsv /\ [][NextTsv]_vars

(***************************************************************************)
(* The probe metadata codec.  A numeric array is a dtype ("int", "float"   *)
(* or "bool") and its values; a float is kept in tenths (15 is 1.5), a     *)
(* bool as 0 or 1.  The JSON document is the sequence of its members, each *)
(* a key and a value whose numbers are texts.                              *)
(***************************************************************************)
NumArray(dtype, data) == [dtype |-> dtype, data |-> data]

Abs(n) == IF n < 0 THEN -n ELSE n

TrueText == <<"t", "r", "u", "e">>
FalseText == <<"f", "a", "l", "s", "e">>

\* float.__repr__ of a float given in tenths: 15 is written 1.5, 20 is 2.0
FloatToText(x) ==
    (IF x < 0 THEN <<"-">> ELSE <<>>)
        \o NatToText(Abs(x) \div 10) \o <<".">> \o NatToText(Abs(x) % 10)

\* the JSON text of one element of array.tolist()
JsonNumberText(dtype, v) ==
    IF dtype = "float" THEN FloatToText(v)
    ELSE IF dtype = "bool" THEN (IF v = 1 THEN TrueText ELSE FalseText)
    ELSE IntToText(v)

JsonArray(a) ==
    [kind |-> "array",
     items |-> [i \in 1..Len(a.data) |-> JsonNumberText(a.dtype, a.data[i])]]

\* a scalar: a Python int is written, a numpy integer is not JSON serializable
JsonScalar(x) == [kind |-> "number", text |-> IntToText(x.value)]

Serializable(x) == x.type = "int"

\* the members json.dump writes, in the order of the dict
ProbeMembers(a) ==
    <<<<"channel", JsonArray(a.channels)>>,
      <<"offset", JsonArray(a.offset)>>,
      <<"scaling", JsonArray(a.scaling)>>,
      <<"mask", JsonArray(a.mask)>>,
      <<"surface_channel", JsonScalar(a.surface_channel)>>,
      <<"air_channel", JsonScalar(a.air_channel)>>,
      <<"vertical_pos", JsonArray(a.vertical_pos)>>,
      <<"horizontal_pos", JsonArray(a.horizontal_pos)>>>>

\* json.dump streams the document: the members before the first value that
\* cannot be serialized are written, then TypeError is raised
JsonDump(a) ==
    LET members == ProbeMembers(a) IN
    IF ~Serializable(a.surface_channel)
    THEN [err |-> "TypeError", complete |-> FALSE, doc |-> SubSeq(members, 1, 4)]
    ELSE IF ~Serializable(a.air_channel)
    THEN [err |-> "TypeError", complete |-> FALSE, doc |-> SubSeq(members, 1, 5)]
    ELSE [err |-> "none", complete |-> TRUE, doc |-> members]

Position(t, ch) == CHOOSE i \in 1..Len(t) : t[i] = ch

\* the number a JSON number token denotes
JsonNumber(t) ==
    IF t = TrueText THEN [type |-> "bool", value |-> 1]
    ELSE IF t = FalseText THEN [type |-> "bool", value |-> 0]
    ELSE IF \E i \in 1..Len(t) : t[i] = "."
    THEN LET dot == Position(t, ".")
             neg == t[1] = "-"
             whole == SubSeq(t, IF neg THEN 2 ELSE 1, dot - 1)
             frac == SubSeq(t, dot + 1, Len(t))
             tenths == 10 * NatValue(whole) + NatValue(frac)
         IN [type |-> "float", value |-> IF neg THEN -tenths ELSE tenths]
    ELSE [type |-> "int", value |-> TextToInt(t)]

\* np.array(list): the dtype is inferred from the elements, float for none
NpArray(items) ==
    LET parsed == [i \in 1..Len(items) |-> JsonNumber(items[i])]
        types == {parsed[i].type : i \in 1..Len(items)}
        dtype == IF types = {} \/ "float" \in types THEN "float"
                 ELSE IF types = {"bool"} THEN "bool"
                 ELSE "int"
    IN NumArray(dtype,
                [i \in 1..Len(items) |->
                    IF dtype = "float" /\ parsed[i].type # "float"
                    THEN 10 * parsed[i].value ELSE parsed[i].value])

HasKey(doc, key) == \E i \in 1..Len(doc) : doc[i][1] = key

\* data[key] of the dict json.load builds
Member(doc, key) ==
    doc[CHOOSE i \in 1..Len(doc) :
            doc[i][1] = key /\ \A j \in (i + 1)..Len(doc) : doc[j][1] # key][2]

\* a variant that returns scaling in the place of offset
ReturnedKeysSwapped ==
    <<"mask", "scaling", "offset", "surface_channel", "air_channel">>

\* the keys read_probe_json reads, in the order of its return statement
ReturnedKeys == <<"mask", "offset", "scaling", "surface_channel", "air_channel">>

\* the body of read_probe_json on a parsed document
ProbeFields(doc) ==
    [i \in 1..Len(ReturnedKeys) |->
        IF i <= 3 THEN NpArray(Member(doc, ReturnedKeys[i]).items)
        ELSE JsonNumber(Member(doc, ReturnedKeys[i]).text).value]

ProbeName == "probe_info.json"

\* a file holding a JSON document, whole or cut short
JsonFile(complete, doc) == [state |-> "file", complete |-> complete, doc |-> doc]

\* write_probe_json(output_file, channels, offset, ...)
WriteProbeJson ==
    /\ pc = "write_probe"
    /\ IF folder[ProbeName].state = "denied"
       THEN pc' = "raised" /\ raised' = "PermissionError"
            /\ UNCHANGED <<folder, calls>>
       ELSE LET d == JsonDump(args) IN
            /\ folder' = [folder EXCEPT ![ProbeName] = JsonFile(d.complete, d.doc)]
            /\ IF d.err # "none"
               THEN pc' = "raised" /\ raised' = d.err /\ UNCHANGED calls
               ELSE /\ pc' = "read_probe"
                    /\ calls' = Append(calls, "write_probe_json")
                    /\ UNCHANGED raised
    /\ UNCHANGED <<result, args, loc>>

\* read_probe_json(input_file)
ReadProbeJson ==
    /\ pc = "read_probe"
    /\ LET f == folder[ProbeName]
           err == IF f.state = "absent" THEN "FileNotFoundError"
                  ELSE IF f.state = "denied" THEN "PermissionError"
                  ELSE IF ~f.complete THEN "JSONDecodeError"
                  ELSE IF \E i \in 1..Len(ReturnedKeys) :
                             ~HasKey(f.doc, ReturnedKeys[i])
                  THEN "KeyError"
                  ELSE "none"
       IN IF err # "none"
          THEN pc' = "raised" /\ raised' = err /\ UNCHANGED <<result, calls>>
          ELSE /\ result' = ProbeFields(f.doc)
               /\ calls' = Append(calls, "read_probe_json")
               /\ pc' = "returned"
               /\ UNCHANGED raised
    /\ UNCHANGED <<folder, args, loc>>

OffsetValues == {-5, 0, 120}
ScalingValues == {10, 25}
Scalar(type, value) == [type |-> type, value |-> value]

\* the records write_probe_json is called with
ProbeRecords ==
    UNION {
      [channels : {NumArray("int", [i \in 1..n |-> i - 1])},
       offset : {NumArray("float", d) : d \in [1..n -> OffsetValues]},
       scaling : {NumArray("float", d) : d \in [1..n -> ScalingValues]},
       mask : {NumArray(t, d) : t \in {"int", "bool"}, d \in [1..n -> {0, 1}]},
       surface_channel : {Scalar("int", 120), Scalar("int64", 120)},
       air_channel : {Scalar("int", 380), Scalar("int", -1), Scalar("int64", 380)},
       vertical_pos : {NumArray("int", [i \in 1..n |-> 20 * i])},
       horizontal_pos : {NumArray("int", [i \in 1..n |-> 11 + 16 * i])}]
      : n \in 0..MaxProbeChan}

\* a record written earlier, holding other values
OldProbeRecord ==
    [channels |-> NumArray("int", <<0>>), offset |-> NumArray("float", <<35>>),
     scaling |-> NumArray("float", <<10>>), mask |-> NumArray("int", <<1>>),
     surface_channel |-> Scalar("int", 7), air_channel |-> Scalar("int", 9),
     vertical_pos |-> NumArray("int", <<20>>),
     horizontal_pos |-> NumArray("int", <<27>>)]

OldProbeFile == JsonFile(TRUE, ProbeMembers(OldProbeRecord))

\* a record is written over whatever the path holds and read back, or the
\* file found at the path is read: a whole document, one cut short, or one
\* that lacks members
InitProbe ==
    /\ raised = "none"
    /\ result = <<>>
    /\ calls = <<>>
    /\ loc = <<>>
    /\ \/ /\ pc = "write_probe"
          /\ args \in ProbeRecords
          /\ folder \in [{ProbeName} -> {Absent, Denied, OldProbeFile}]
       \/ /\ pc = "read_probe"
          /\ args = OldProbeRecord
          /\ folder \in [{ProbeName} ->
                {Absent, Denied, OldProbeFile,
                 JsonFile(FALSE, SubSeq(ProbeMembers(OldProbeRecord), 1, 4)),
                 JsonFile(TRUE, SubSeq(ProbeMembers(OldProbeRecord), 1, 4))}]

NextProbe ==
    \/ WriteProbeJson
    \/ ReadProbeJson

SpecProbe == InitProbe /\ [][NextProbe]_vars

(***************************************************************************)
(* Properties.                                                             *)
(***************************************************************************)
Tsv == folder[TsvName]

Returned(op) ==
    pc = "returned" /\ calls # <<>> /\ calls[Len(calls)] = op

\* the flags' mandatory arrays
Mandatory ==
    {IF args.use_master_clock THEN "spike_times_master_clock.npy"
     ELSE "spike_times.npy",
     "spike_clusters.npy", "amplitudes.npy", "templates.npy",
     "whitening_mat_inv.npy", "channel_map.npy"}
    \cup (IF args.include_pcs THEN {"pc_features.npy", "pc_feature_ind.npy"}
          ELSE {})

\* C1: the fallback branch of load_kilosort_data is entered only when
\* cluster_group.tsv does not exist, and a load that returns although the
\* table exists has read the table.
C1_FallbackOnlyWhenAbsent ==
    /\ pc = "except_oserror" => Tsv.state = "absent"
    /\ (Returned("load_kilosort_data") /\ Tsv.state # "absent")
           => /\ Tsv.state = "file"
              /\ Len(result[6]) = Len(Tsv.rows) - 1

\* C2: when cluster_group.tsv is absent, the returned cluster ids are the
\* distinct values of spike_clusters.npy in ascending order without
\* duplicates, and the quality sequence has the same length, every entry
\* 'unsorted'.
C2_FallbackIdsSortedUnsorted ==
    (Returned("load_kilosort_data") /\ Tsv.state = "absent") =>
        LET ids == result[6]
            stored == folder["spike_clusters.npy"].array.data
        IN /\ \A i \in 1..Len(ids), j \in 1..Len(ids) : i < j => ids[i] < ids[j]
           /\ {ids[i] : i \in 1..Len(ids)} = {stored[i] : i \in 1..Len(stored)}
           /\ Len(result[7]) = Len(ids)
           /\ \A i \in 1..Len(ids) : result[7][i] = Unsorted

\* C2 witness: a load without the table whose stored cluster assignments are
\* out of order has returned.
C2_Witness ==
    /\ Returned("load_kilosort_data")
    /\ Tsv.state = "absent"
    /\ LET stored == folder["spike_clusters.npy"].array.data
       IN Len(stored) >= 2 /\ stored[1] > stored[2]

\* len() of a returned array: its first dimension; a 0-dimensional array has none
HasLen(a) == Len(a.shape) >= 1

\* C3: with a cluster_group.tsv that is read, the returned ids and labels are
\* the data rows of the table in table order, and the returned spike times,
\* cluster assignments and amplitudes are sequences of mutually equal length.
C3_TableAsIsEqualLengths ==
    (Returned("load_kilosort_data") /\ Tsv.state = "file"
        /\ Tsv.rows[1] = HeaderRow) =>
        /\ Len(result[6]) = Len(Tsv.rows) - 1
        /\ Len(result[7]) = Len(Tsv.rows) - 1
        /\ \A i \in 1..Len(result[6]) :
              /\ IntToText(result[6][i]) = Tsv.rows[i + 1][1]
              /\ result[7][i] = Tsv.rows[i + 1][2]
        /\ HasLen(result[1]) /\ HasLen(result[2]) /\ HasLen(result[3])
        /\ result[1].shape[1] = result[2].shape[1]
        /\ result[2].shape[1] = result[3].shape[1]

\* C4: while a mandatory array is absent the load never gets past the loads
\* and returns nothing; it ends with FileNotFoundError, also when only the
\* master-clock array is absent and the primary one present; a load that
\* returns had every mandatory array.
C4_MissingMandatoryFails ==
    (\E f \in Mandatory : folder[f].state = "absent") =>
        /\ pc \in {"load_spike_times", "load_spike_clusters", "load_amplitudes",
                   "load_templates", "load_unwhitening_mat", "load_channel_map",
                   "load_pc_features", "load_pc_feature_ind", "raised"}
        /\ result = <<>>
        /\ pc = "raised" => raised = "FileNotFoundError"
        /\ pc # "raised" => ENABLED Next

\* C4 witness: the load has failed with the master-clock flag set, the
\* master-clock array absent and every other file present.
C4_Witness ==
    /\ pc = "raised"
    /\ raised = "FileNotFoundError"
    /\ args.use_master_clock
    /\ \A f \in FileNames :
          folder[f].state = "absent" <=> f = "spike_times_master_clock.npy"

\* C7: a load that reconstructs at least one template of at least one time
\* sample returns only if the unwhitening matrix is square with the
\* templates' channel dimension.
C7_MismatchFails ==
    (Returned("load_kilosort_data") /\ loc.templates.shape[1] >= 1
        /\ loc.templates.shape[2] >= 1) =>
        loc.unwhitening_mat.shape
            = <<loc.templates.shape[3], loc.templates.shape[3]>>

\* the entry (s, ch) of the product of a matrix m (c columns) with w
ProductEntry(m, w, c, s, ch) ==
    LET RECURSIVE sum(_)
        sum(j) == IF j > c THEN 0 ELSE m[s][j] * w[j][ch] + sum(j + 1)
    IN sum(1)

MatrixMatches ==
    loc.unwhitening_mat.shape = <<loc.templates.shape[3], loc.templates.shape[3]>>

\* C9: every slice i of the returned tensor is the matrix product of slice i
\* of the padding-stripped templates with the unwhitening matrix, row by row
\* (a row of the product has as many entries as the matrix has columns), and
\* the tensor has the stripped tensor's shape.
C9_SliceIsProduct ==
    Returned("load_kilosort_data") =>
        /\ result[4].shape = loc.templates.shape
        /\ Len(result[4].data) = loc.templates.shape[1]
        /\ \A i \in 1..loc.templates.shape[1] :
              /\ Len(result[4].data[i]) = loc.templates.shape[2]
              /\ \A s \in 1..loc.templates.shape[2] :
                    /\ Len(result[4].data[i][s]) = loc.unwhitening_mat.shape[2]
                    /\ \A ch \in 1..loc.unwhitening_mat.shape[2] :
                          result[4].data[i][s][ch] =
                              ProductEntry(loc.templates.data[i],
                                           loc.unwhitening_mat.data,
                                           loc.templates.shape[3], s, ch)

\* The statement of C9 for the loads whose unwhitening matrix is square with
\* the templates' channel dimension.
SliceIsProductWhenMatrixMatches ==
    (Returned("load_kilosort_data") /\ MatrixMatches) => C9_SliceIsProduct

RawTemplates == folder["templates.npy"].array

\* C10 as stated, for a raw tensor of at least one template and one time
\* sample: the returned tensor has time-length T - p.
C10_TimeLengthIsDifference ==
    (Returned("load_kilosort_data") /\ RawTemplates.shape[1] >= 1
        /\ RawTemplates.shape[2] >= 1) =>
        result[4].shape[2] = RawTemplates.shape[2] - args.template_zero_padding

\* C10 as amended: the returned tensor has time-length T - p when p <= T and
\* 0 when p > T, with the template and channel dimensions unchanged, and its
\* entry at time s is computed from the raw values at time p + s (and the
\* column of the unwhitening matrix that the slice assignment puts there).
C10_StripExact ==
    Returned("load_kilosort_data") =>
        LET p == args.template_zero_padding
            T == RawTemplates.shape[2]
            c == RawTemplates.shape[3]
            k == loc.unwhitening_mat.shape[2]
        IN /\ result[4].shape = <<RawTemplates.shape[1],
                                  IF p <= T THEN T - p ELSE 0, c>>
           /\ \A i \in 1..RawTemplates.shape[1] :
                 /\ Len(result[4].data[i]) = (IF p <= T THEN T - p ELSE 0)
                 /\ \A s \in 1..Len(result[4].data[i]), ch \in 1..c :
                       result[4].data[i][s][ch] =
                           ProductEntry(RawTemplates.data[i],
                                        loc.unwhitening_mat.data, c,
                                        p + s, IF k = c THEN ch ELSE 1)

\* C10 witness: a load that strips a padding narrower than the templates.
C10_Witness ==
    /\ Returned("load_kilosort_data")
    /\ RawTemplates.shape[1] >= 1
    /\ args.template_zero_padding >= 1
    /\ RawTemplates.shape[2] > args.template_zero_padding

\* the label the quality table gives a code
LabelOf(code) == CASE code = 0 -> Unsorted [] code = 1 -> Good [] OTHER -> Noise

WroteThenRead ==
    /\ Len(calls) >= 1
    /\ calls[1] = "write_cluster_group_tsv"
    /\ pc \in {"returned", "raised"}

\* C5: writing equal-length ids and codes and reading the file back returns
\* the same ids in the same order, labelled 'unsorted' for 0, 'good' for 1
\* and 'noise' for any other code.
C5_TableRoundTrip ==
    (WroteThenRead /\ Len(args.IDs) = Len(args.quality)) =>
        /\ pc = "returned"
        /\ result[1] = args.IDs
        /\ result[2] = [i \in 1..Len(args.quality) |-> LabelOf(args.quality[i])]

\* C8: read_cluster_group_tsv returns only if the first line of the file is
\* not a data row and the id cell of every data row converts to an integer.
C8_MalformedTableFails ==
    (Returned("read_cluster_group_tsv") /\ Tsv.state = "file") =>
        /\ ~IsIntText(Tsv.rows[1][1])
        /\ \A i \in 2..Len(Tsv.rows) : IsIntText(Tsv.rows[i][1])

\* the values of a numeric array, in tenths
Tenths(a) ==
    [i \in 1..Len(a.data) |->
        IF a.dtype = "float" THEN a.data[i] ELSE 10 * a.data[i]]

SameArray(read, written) ==
    /\ Tenths(read) = Tenths(written)
    /\ Len(written.data) >= 1 => read.dtype = written.dtype

\* C6: read_probe_json of a file written by write_probe_json returns exactly
\* mask, offset, scaling, surface_channel and air_channel, each equal to the
\* written value.
C6_ProbeRoundTrip ==
    (pc = "returned"
        /\ calls = <<"write_probe_json", "read_probe_json">>) =>
        /\ Len(result) = 5
        /\ SameArray(result[1], args.mask)
        /\ SameArray(result[2], args.offset)
        /\ SameArray(result[3], args.scaling)
        /\ result[4] = args.surface_channel.value
        /\ result[5] = args.air_channel.value

\* C6 witness: a record of two channels with a negative offset and a
\* negative air channel has been written and read back.
C6_Witness ==
    /\ pc = "returned"
    /\ calls = <<"write_probe_json", "read_probe_json">>
    /\ Len(args.offset.data) >= 2
    /\ \E i \in 1..Len(args.offset.data) : args.offset.data[i] < 0
    /\ args.air_channel.value < 0

=============================================================================
